---- MODULE Spec2Model ----
(***************************************************************************)
(* A model of the borrowing lifecycle of the books-library service:        *)
(* the users, books and borrow_records tables, and the request handlers    *)
(* of app/routes/borrow_record.py, app/routes/books.py and                 *)
(* app/routes/users.py that read and write them.                           *)
(*                                                                         *)
(* Dates are whole days counted from an arbitrary epoch; a datetime is     *)
(* modelled by its day.  Money is counted in cents.                        *)
(***************************************************************************)
EXTENDS Integers, Sequences, FiniteSets, TLC

VARIABLES users, books, borrow_records, today, resp, reqs

vars == <<users, books, borrow_records, today, resp, reqs>>

(***************************************************************************)
(* Bounds of the model.                                                    *)
(***************************************************************************)
\* The day the clock starts at.
StartDay == 200
\* The clock advances at most this many days.
MaxDays == 1
\* The largest borrow record id the lifecycle specification assigns.
MaxRecords == 1
\* The largest borrow record id the borrow-limit specification assigns.
MaxLimitRecords == 5
\* The largest borrow record id the two-record specification assigns.
MaxPairRecords == 2
\* The largest due date an extension may reach, in days after StartDay.
MaxDueAhead == 2

(***************************************************************************)
(* Program constants.                                                      *)
(***************************************************************************)
MAX_ACTIVE_BORROWS == 5
\* 0.50 per day, in cents
FINE_PER_DAY == 50
\* 25.00, in cents
MAX_FINE == 2500

\* Python's None in an Optional[date], Optional[datetime] or Optional[float]
None == -1
\* None in Optional[str] notes
NoNotes == << >>

BookStatus == {"available", "borrowed", "reserved", "maintenance", "lost"}
AVAILABLE == "available"
BORROWED == "borrowed"

(***************************************************************************)
(* The details of the HTTP errors the handlers raise, and of success.      *)
(***************************************************************************)
OK == "ok"
UserNotFound == "User not found"
UserNotActive == "User is not active"
BookNotFound == "Book not found"
BookNotAvailable == "Book is not available"
LimitReached == "User has reached maximum active borrows limit"
HasOverdue == "User has overdue books"
RecordNotFound == "Borrow record not found"
AlreadyReturned == "Book already returned"
CannotExtend == "Cannot extend returned book"
InternalError == "Internal Server Error"

Min(a, b) == IF a <= b THEN a ELSE b

MaxOf(S) == CHOOSE x \in S : \A y \in S : y <= x

\* The response of the last request: the operation, the detail of its error
\* (OK: none; StatusOf gives the HTTP status) and, when it succeeded on a
\* borrow record, the record's id.
Response(op, detail, id) ==
    [op |-> op, detail |-> detail, id |-> IF detail = OK THEN id ELSE 0]

(***************************************************************************)
(* The data model: app/schema.py and app/database.py.                      *)
(***************************************************************************)
\* A row of borrow_records built from the create payload: every field of
\* the payload is copied, the optional ones included.
BorrowRecord(d) ==
    [user_id |-> d.user_id, book_id |-> d.book_id,
     borrowed_date |-> d.borrowed_date, due_date |-> d.due_date,
     returned_date |-> d.returned_date, fine_amount |-> d.fine_amount,
     notes |-> d.notes]

validate_due_date(d) == d.due_date > d.borrowed_date

validate_returned_date(d) ==
    d.returned_date # None => d.returned_date >= d.borrowed_date

\* fine_amount: Optional[float] = Field(None, ge=0)
validate_fine_amount(v) == v # None => v >= 0

\* A payload BorrowRecordCreateSchema accepts.
BorrowRecordCreateSchema(d) ==
    /\ validate_due_date(d)
    /\ validate_returned_date(d)
    /\ validate_fine_amount(d.fine_amount)

\* A patch BorrowRecordUpdateSchema accepts: any subset of the four fields.
BorrowRecordUpdateSchema(p) ==
    /\ DOMAIN p \subseteq {"due_date", "returned_date", "fine_amount", "notes"}
    /\ "fine_amount" \in DOMAIN p => validate_fine_amount(p.fine_amount)

\* is_overdue with the fault of not reading returned_date and of counting
\* the due date itself as overdue.
is_overdue_ignoring_return(r, now) == now >= r.due_date

is_overdue(r, now) ==
    IF r.returned_date # None THEN FALSE ELSE now > r.due_date

days_overdue(r, now) ==
    IF ~is_overdue(r, now) THEN 0 ELSE now - r.due_date

\* The id the store gives a new row: one more than the largest in the table.
NewId(table) == IF DOMAIN table = {} THEN 1 ELSE MaxOf(DOMAIN table) + 1

StatusOf(detail) ==
    IF detail = OK THEN 200
    ELSE IF detail \in {UserNotFound, BookNotFound, RecordNotFound} THEN 404
    ELSE IF detail = InternalError THEN 500
    ELSE 400

\* A request that raises: nothing is committed, the caller gets the error.
Fail(op, detail, id) ==
    /\ resp' = Response(op, detail, id)
    /\ UNCHANGED <<users, books, borrow_records, today, reqs>>

(***************************************************************************)
(* create_borrow_record: the four checks, in the order of the code, each   *)
(* reading the tables as they are when it runs.                            *)
(***************************************************************************)
CheckUser(d) ==
    IF d.user_id \notin DOMAIN users THEN UserNotFound
    ELSE IF ~users[d.user_id].is_active THEN UserNotActive
    ELSE OK

\* CheckBook with the fault of refusing only a borrowed book.
CheckBookBorrowedOnly(d) ==
    IF d.book_id \notin DOMAIN books THEN BookNotFound
    ELSE IF books[d.book_id].status = BORROWED THEN BookNotAvailable
    ELSE OK

CheckBook(d) ==
    IF d.book_id \notin DOMAIN books THEN BookNotFound
    ELSE IF books[d.book_id].status # AVAILABLE THEN BookNotAvailable
    ELSE OK

active_borrows_count(d) ==
    Cardinality({i \in DOMAIN borrow_records :
                    /\ borrow_records[i].user_id = d.user_id
                    /\ borrow_records[i].returned_date = None})

CheckLimit(d) ==
    IF active_borrows_count(d) >= MAX_ACTIVE_BORROWS THEN LimitReached ELSE OK

\* overdue_books with the fault of missing a record due the day before.
overdue_books_from_yesterday(d) ==
    {i \in DOMAIN borrow_records :
        /\ borrow_records[i].user_id = d.user_id
        /\ borrow_records[i].returned_date = None
        /\ borrow_records[i].due_date < today - 1}

\* overdue_books with the fault of not excluding the returned records.
overdue_books_counting_returned(d) ==
    {i \in DOMAIN borrow_records :
        /\ borrow_records[i].user_id = d.user_id
        /\ borrow_records[i].due_date < today}

overdue_books(d) ==
    {i \in DOMAIN borrow_records :
        /\ borrow_records[i].user_id = d.user_id
        /\ borrow_records[i].returned_date = None
        /\ borrow_records[i].due_date < today}

CheckOverdue(d) == IF overdue_books(d) # {} THEN HasOverdue ELSE OK

\* CreateError with the fault of checking overdue records before the limit.
CreateErrorOverdueFirst(d) ==
    IF CheckUser(d) # OK THEN CheckUser(d)
    ELSE IF CheckBook(d) # OK THEN CheckBook(d)
    ELSE IF CheckOverdue(d) # OK THEN CheckOverdue(d)
    ELSE CheckLimit(d)

\* The first check that fails, or OK.
CreateError(d) ==
    IF CheckUser(d) # OK THEN CheckUser(d)
    ELSE IF CheckBook(d) # OK THEN CheckBook(d)
    ELSE IF CheckLimit(d) # OK THEN CheckLimit(d)
    ELSE CheckOverdue(d)

\* session.add(db_borrow); book.status = BORROWED; session.commit():
\* the INSERT and the UPDATE of the book's row are one transaction.
CommitBorrow(d) ==
    /\ borrow_records' =
          [i \in DOMAIN borrow_records \cup {NewId(borrow_records)} |->
              IF i \in DOMAIN borrow_records THEN borrow_records[i]
              ELSE BorrowRecord(d)]
    /\ books' = [books EXCEPT ![d.book_id].status = BORROWED]

\* The whole handler, run with no other request in between.  maxId bounds
\* the ids the model assigns.
create_borrow_record(d, maxId) ==
    /\ BorrowRecordCreateSchema(d)
    /\ IF CreateError(d) # OK
       THEN Fail("create", CreateError(d), 0)
       ELSE /\ NewId(borrow_records) <= maxId
            /\ CommitBorrow(d)
            /\ resp' = Response("create", OK, NewId(borrow_records))
            /\ UNCHANGED <<users, today, reqs>>

(***************************************************************************)
(* return_book                                                             *)
(***************************************************************************)
\* The record as return_book leaves it: returned_date is set first, and
\* is_overdue and days_overdue are then read from the record so changed.
Returned(r, now) ==
    LET marked == [r EXCEPT !.returned_date = now]
    IN  IF is_overdue(marked, now)
        THEN [marked EXCEPT !.fine_amount =
                 Min(days_overdue(marked, now) * FINE_PER_DAY, MAX_FINE)]
        ELSE marked

\* return_book with the fault of not checking that the record is active.
return_book_unchecked(id) ==
    IF id \notin DOMAIN borrow_records
    THEN Fail("return", RecordNotFound, id)
    ELSE /\ borrow_records[id].book_id \in DOMAIN books
         /\ borrow_records' =
               [borrow_records EXCEPT ![id] = Returned(borrow_records[id], today)]
         /\ books' =
               [books EXCEPT ![borrow_records[id].book_id].status = AVAILABLE]
         /\ resp' = Response("return", OK, id)
         /\ UNCHANGED <<users, today, reqs>>

return_book(id) ==
    IF id \notin DOMAIN borrow_records
    THEN Fail("return", RecordNotFound, id)
    ELSE IF borrow_records[id].returned_date # None
    THEN Fail("return", AlreadyReturned, id)
    ELSE IF borrow_records[id].book_id \notin DOMAIN books
    \* session.get(Book, ...) is None: book.status raises, nothing commits
    THEN Fail("return", InternalError, id)
    ELSE /\ borrow_records' =
               [borrow_records EXCEPT ![id] = Returned(borrow_records[id], today)]
         /\ books' =
               [books EXCEPT ![borrow_records[id].book_id].status = AVAILABLE]
         /\ resp' = Response("return", OK, id)
         /\ UNCHANGED <<users, today, reqs>>

(***************************************************************************)
(* extend_due_date: extend_days is validated to lie in 1..30; the note     *)
(* replaces whatever notes the record held.                                *)
(***************************************************************************)
ExtensionNote(extend_days, now) ==
    [text |-> "Extended", days |-> extend_days, on |-> now]

\* extend_due_date with the fault of not checking that the record is active.
extend_due_date_unchecked(id, extend_days) ==
    /\ extend_days >= 1
    /\ extend_days <= 30
    /\ IF id \notin DOMAIN borrow_records
       THEN Fail("extend", RecordNotFound, id)
       ELSE /\ borrow_records[id].due_date + extend_days <= StartDay + MaxDueAhead
            /\ borrow_records' =
                  [borrow_records EXCEPT
                      ![id].due_date = @ + extend_days,
                      ![id].notes = <<ExtensionNote(extend_days, today)>>]
            /\ resp' = Response("extend", OK, id)
            /\ UNCHANGED <<users, books, today, reqs>>

extend_due_date(id, extend_days) ==
    /\ extend_days >= 1
    /\ extend_days <= 30
    /\ IF id \notin DOMAIN borrow_records
       THEN Fail("extend", RecordNotFound, id)
       ELSE IF borrow_records[id].returned_date # None
       THEN Fail("extend", CannotExtend, id)
       ELSE /\ borrow_records[id].due_date + extend_days <= StartDay + MaxDueAhead
            /\ borrow_records' =
                  [borrow_records EXCEPT
                      ![id].due_date = @ + extend_days,
                      ![id].notes = <<ExtensionNote(extend_days, today)>>]
            /\ resp' = Response("extend", OK, id)
            /\ UNCHANGED <<users, books, today, reqs>>

(***************************************************************************)
(* update_borrow_record: every field the patch carries is set on the       *)
(* record, None included; the book is not read.                            *)
(***************************************************************************)
Patched(r, p) ==
    [f \in DOMAIN r |-> IF f \in DOMAIN p THEN p[f] ELSE r[f]]

\* update_borrow_record with the fault of releasing the book when the patch
\* sets a returned_date.
update_borrow_record_releasing(id, p) ==
    /\ BorrowRecordUpdateSchema(p)
    /\ IF id \notin DOMAIN borrow_records
       THEN Fail("update", RecordNotFound, id)
       ELSE IF "due_date" \in DOMAIN p /\ p.due_date = None
       THEN Fail("update", InternalError, id)
       ELSE /\ borrow_records' =
                  [borrow_records EXCEPT ![id] = Patched(borrow_records[id], p)]
            /\ books' =
                  IF "returned_date" \in DOMAIN p /\ p.returned_date # None
                  THEN [books EXCEPT
                           ![borrow_records[id].book_id].status = AVAILABLE]
                  ELSE books
            /\ resp' = Response("update", OK, id)
            /\ UNCHANGED <<users, today, reqs>>

update_borrow_record(id, p) ==
    /\ BorrowRecordUpdateSchema(p)
    /\ IF id \notin DOMAIN borrow_records
       THEN Fail("update", RecordNotFound, id)
       ELSE IF "due_date" \in DOMAIN p /\ p.due_date = None
       \* due_date is a NOT NULL column: the commit raises
       THEN Fail("update", InternalError, id)
       ELSE /\ borrow_records' =
                  [borrow_records EXCEPT ![id] = Patched(borrow_records[id], p)]
            /\ resp' = Response("update", OK, id)
            /\ UNCHANGED <<users, books, today, reqs>>

(***************************************************************************)
(* delete_borrow_record                                                    *)
(***************************************************************************)
\* delete_borrow_record with the fault of releasing the book of a returned
\* record too.
delete_borrow_record_releasing(id) ==
    IF id \notin DOMAIN borrow_records
    THEN Fail("delete", RecordNotFound, id)
    ELSE /\ borrow_records[id].book_id \in DOMAIN books
         /\ books' =
               [books EXCEPT ![borrow_records[id].book_id].status = AVAILABLE]
         /\ borrow_records' =
               [i \in DOMAIN borrow_records \ {id} |-> borrow_records[i]]
         /\ resp' = Response("delete", OK, id)
         /\ UNCHANGED <<users, today, reqs>>

delete_borrow_record(id) ==
    IF id \notin DOMAIN borrow_records
    THEN Fail("delete", RecordNotFound, id)
    ELSE IF /\ borrow_records[id].returned_date = None
            /\ borrow_records[id].book_id \notin DOMAIN books
    THEN Fail("delete", InternalError, id)
    ELSE /\ books' =
               IF borrow_records[id].returned_date = None
               THEN [books EXCEPT ![borrow_records[id].book_id].status = AVAILABLE]
               ELSE books
         /\ borrow_records' =
               [i \in DOMAIN borrow_records \ {id} |-> borrow_records[i]]
         /\ resp' = Response("delete", OK, id)
         /\ UNCHANGED <<users, today, reqs>>

(***************************************************************************)
(* app/routes/books.py                                                     *)
(***************************************************************************)
\* The patch carries a status or not; the other fields of a book are not
\* modelled.
update_book(book_id, p) ==
    /\ DOMAIN p \subseteq {"status"}
    /\ "status" \in DOMAIN p => p.status \in BookStatus
    /\ IF book_id \notin DOMAIN books
       THEN Fail("update_book", BookNotFound, 0)
       ELSE /\ books' = [books EXCEPT ![book_id] = Patched(books[book_id], p)]
            /\ resp' = Response("update_book", OK, 0)
            /\ UNCHANGED <<users, borrow_records, today, reqs>>

\* Book.borrow_records has no delete cascade and borrow_records.book_id is
\* NOT NULL: deleting a book some record refers to fails at the commit.
delete_book(book_id) ==
    IF book_id \notin DOMAIN books
    THEN Fail("delete_book", BookNotFound, 0)
    ELSE IF \E i \in DOMAIN borrow_records : borrow_records[i].book_id = book_id
    THEN Fail("delete_book", InternalError, 0)
    ELSE /\ books' = [b \in DOMAIN books \ {book_id} |-> books[b]]
         /\ resp' = Response("delete_book", OK, 0)
         /\ UNCHANGED <<users, borrow_records, today, reqs>>

(***************************************************************************)
(* app/routes/users.py                                                     *)
(***************************************************************************)
SetActive(op, user_id, flag) ==
    IF user_id \notin DOMAIN users
    THEN Fail(op, UserNotFound, 0)
    ELSE /\ users' = [users EXCEPT ![user_id].is_active = flag]
         /\ resp' = Response(op, OK, 0)
         /\ UNCHANGED <<books, borrow_records, today, reqs>>

deactivate_user(user_id) == SetActive("deactivate", user_id, FALSE)

activate_user(user_id) == SetActive("activate", user_id, TRUE)

\* delete_user with the fault of deleting the user without looking at the
\* user's borrow records.
delete_user_unchecked(user_id) ==
    IF user_id \notin DOMAIN users
    THEN Fail("delete_user", UserNotFound, 0)
    ELSE /\ users' = [u \in DOMAIN users \ {user_id} |-> users[u]]
         /\ resp' = Response("delete_user", OK, 0)
         /\ UNCHANGED <<books, borrow_records, today, reqs>>

\* The module does not import BorrowRecord: for a user that exists, the
\* query of the user's active records raises NameError before anything is
\* deleted, and the request ends with a server error.
delete_user(user_id) ==
    IF user_id \notin DOMAIN users
    THEN Fail("delete_user", UserNotFound, 0)
    ELSE Fail("delete_user", InternalError, 0)

(***************************************************************************)
(* The clock: date.today() and datetime.utcnow() move on by a day.         *)
(***************************************************************************)
Tick ==
    /\ today < StartDay + MaxDays
    /\ today' = today + 1
    /\ UNCHANGED <<users, books, borrow_records, resp, reqs>>

(***************************************************************************)
(* The requests the specifications draw.                                   *)
(***************************************************************************)
\* The create payloads over the given values of each field that the
\* schema accepts.
CreateData(US, BS, BD, DD, RD, FA, NT) ==
    {d \in [user_id : US, book_id : BS, borrowed_date : BD, due_date : DD,
            returned_date : RD, fine_amount : FA, notes : NT] :
        BorrowRecordCreateSchema(d)}

\* A book patch with a status, and the patch with none.
BookPatches == {[status |-> s] : s \in BookStatus} \cup {[x \in {} |-> 0]}

\* A library whose users US (all active) and books BS (all available) have
\* been registered, before the first borrow.
InitLibrary(US, BS) ==
    /\ users = [u \in US |-> [is_active |-> TRUE]]
    /\ books = [b \in BS |-> [status |-> AVAILABLE]]
    /\ borrow_records = [i \in {} |-> 0]
    /\ today = StartDay
    /\ resp = Response("none", OK, 0)
    /\ reqs = [s \in {} |-> 0]

(***************************************************************************)
(* The lifecycle specification: every handler of a borrow record and of a  *)
(* book, one request at a time.  User 1 and book 1 exist; 2 is the id of   *)
(* no user and of no book.                                                 *)
(***************************************************************************)
Init == InitLibrary({1}, {1})

\* Payloads with the default borrowed_date, due the next day: by user 1 for
\* book 1 with and without the optional returned_date, and one for every
\* other pair of a user id and a book id.
Creates ==
    CreateData({1}, {1}, {today}, {today + 1}, {None, today},
               {None}, {NoNotes})
    \cup CreateData({1, 2}, {1, 2}, {today}, {today + 1}, {None},
                    {None}, {NoNotes})

RecordIds == 1 .. (MaxRecords + 1)

RecordPatches ==
    {[returned_date |-> None], [returned_date |-> today], [fine_amount |-> 100]}

\* The administrative override of a book's status, and a patch of other
\* fields.
StatusPatches ==
    {[status |-> AVAILABLE], [status |-> "maintenance"], [x \in {} |-> 0]}

Create(d) == create_borrow_record(d, MaxRecords)

Next ==
    \/ \E d \in Creates : Create(d)
    \/ \E id \in RecordIds : return_book(id)
    \/ \E id \in RecordIds : extend_due_date(id, 1)
    \/ \E id \in RecordIds, p \in RecordPatches : update_borrow_record(id, p)
    \/ \E id \in RecordIds : delete_borrow_record(id)
    \/ \E b \in {1, 2}, p \in StatusPatches : update_book(b, p)
    \/ \E b \in {1, 2} : delete_book(b)
    \/ Tick

Spec == Init /\ [][Next]_vars

(***************************************************************************)
(* The fine specification: borrows with due dates around the current date, *)
(* returned as the days pass.                                              *)
(***************************************************************************)
\* Days before the current date a payload's due date lies (negative: after).
DueDaysAgo == {100, 50, 10, 1, 0, -1}

FineCreates ==
    CreateData({1}, {1}, {today, today - 101}, {today - n : n \in DueDaysAgo},
               {None}, {None, 100}, {NoNotes})

FineCreate(d) == create_borrow_record(d, MaxRecords)

FineNext ==
    \/ \E d \in FineCreates : FineCreate(d)
    \/ \E id \in RecordIds : return_book(id)
    \/ \E id \in RecordIds : delete_borrow_record(id)
    \/ Tick

SpecFine == Init /\ [][FineNext]_vars

(***************************************************************************)
(* The borrow-limit specification: creates by users 1 and 2 (3 is no user) *)
(* for book 1 (2 is no book), which an administrator sets to any status;   *)
(* users are deactivated and activated.                                    *)
(***************************************************************************)
LimitInit == InitLibrary({1, 2}, {1})

\* By user 1 for book 1: a borrow due tomorrow, the same with a
\* returned_date, and a backdated borrow that was due yesterday.  For every
\* pair of a user id and a book id: a borrow due tomorrow.
LimitCreates ==
    CreateData({1}, {1}, {today}, {today + 1}, {None, today},
               {None}, {NoNotes})
    \cup CreateData({1}, {1}, {today - 2}, {today - 1}, {None},
                    {None}, {NoNotes})
    \cup CreateData({1, 2, 3}, {1, 2}, {today}, {today + 1}, {None},
                    {None}, {NoNotes})

LimitCreate(d) == create_borrow_record(d, MaxLimitRecords)

LimitNext ==
    \/ \E d \in LimitCreates : LimitCreate(d)
    \/ \E p \in BookPatches : update_book(1, p)
    \/ deactivate_user(1)
    \/ activate_user(1)

SpecLimit == LimitInit /\ [][LimitNext]_vars

(***************************************************************************)
(* The two-record specification: user 1 borrows book 1, returns it and     *)
(* borrows it again as the days pass; records are deleted, an              *)
(* administrator sets the book's status and asks to delete users 1 and 2   *)
(* (2 is no user).                                                         *)
(***************************************************************************)
\* A borrow due tomorrow, the same with a returned_date, and a backdated
\* borrow that was due yesterday.
PairCreates ==
    CreateData({1}, {1}, {today}, {today + 1}, {None, today},
               {None}, {NoNotes})
    \cup CreateData({1}, {1}, {today - 2}, {today - 1}, {None},
                    {None}, {NoNotes})

PairIds == 1 .. MaxPairRecords

PairCreate(d) == create_borrow_record(d, MaxPairRecords)

PairNext ==
    \/ \E d \in PairCreates : PairCreate(d)
    \/ \E id \in PairIds : return_book(id)
    \/ \E id \in PairIds : delete_borrow_record(id)
    \/ \E p \in StatusPatches : update_book(1, p)
    \/ \E u \in {1, 2} : delete_user(u)
    \/ Tick

SpecPair == Init /\ [][PairNext]_vars

(***************************************************************************)
(* The extension specification: borrows that are on time, overdue and      *)
(* long overdue are extended by a day and by the maximum, and returned.    *)
(***************************************************************************)
\* extend_days at and beyond both ends of the accepted range 1..30.
ExtendDays == {0, 1, 30, 31}

\* A note the borrower's payload carries.
CallerNote == <<[text |-> "Signed copy", days |-> 0, on |-> 0]>>

\* A borrow due tomorrow, with and without a note and a fine; a borrow that
\* was due yesterday; a borrow that was due 30 days ago.
ExtendCreates ==
    CreateData({1}, {1}, {today}, {today + 1}, {None},
               {None, 100}, {NoNotes, CallerNote})
    \cup CreateData({1}, {1}, {today - 40}, {today - 1, today - 30}, {None},
                    {None}, {NoNotes})

ExtendCreate(d) == create_borrow_record(d, MaxRecords)

ExtendNext ==
    \/ \E d \in ExtendCreates : ExtendCreate(d)
    \/ \E id \in RecordIds, n \in ExtendDays : extend_due_date(id, n)
    \/ \E id \in RecordIds : return_book(id)
    \/ \E id \in RecordIds : delete_borrow_record(id)

SpecExtend == Init /\ [][ExtendNext]_vars

(***************************************************************************)
(* The patch specification: records of user 1 for book 1 are corrected     *)
(* through the generic update, with one field, with several and with      *)
(* none.                                                                   *)
(***************************************************************************)
PatchCreates ==
    CreateData({1}, {1}, {today}, {today + 1}, {None, today},
               {None}, {NoNotes})

\* The patches the schema accepts among: due_date null or later,
\* returned_date null or yesterday, fine_amount 1.00 together with a note, a
\* negative fine_amount, and no field at all.
Patches ==
    {p \in {[due_date |-> None], [due_date |-> today + 2],
            [returned_date |-> None], [returned_date |-> today - 1],
            [fine_amount |-> 100, notes |-> CallerNote],
            [fine_amount |-> -5], [x \in {} |-> 0]} :
        BorrowRecordUpdateSchema(p)}

PatchCreate(d) == create_borrow_record(d, MaxPairRecords)

PatchNext ==
    \/ \E d \in PatchCreates : PatchCreate(d)
    \/ \E id \in PairIds, p \in Patches : update_borrow_record(id, p)
    \/ \E p \in StatusPatches : update_book(1, p)

SpecPatch == Init /\ [][PatchNext]_vars

(***************************************************************************)
(* The concurrent specification: two create requests, each in a session    *)
(* of its own (get_session), their steps interleaved.  Each read sees the  *)
(* rows committed so far; session.add and the assignment of book.status    *)
(* change the session only, and the commit writes both.                    *)
(***************************************************************************)
Slots == {1, 2}

ConcInit == InitLibrary({1, 2}, {1, 2})

ConcCreates ==
    CreateData({1, 2}, {1, 2}, {today}, {today + 1}, {None}, {None}, {NoNotes})

Request(pc, d, detail) == [pc |-> pc, d |-> d, detail |-> detail]

\* The request of slot s moves on to pc, or ends with the error.
Advance(s, err, pc) ==
    /\ reqs' = [reqs EXCEPT ![s] =
                   IF err # OK THEN Request("done", reqs[s].d, err)
                   ELSE Request(pc, reqs[s].d, OK)]
    /\ UNCHANGED <<users, books, borrow_records, today, resp>>

create_begin(s, d) ==
    /\ s \notin DOMAIN reqs
    /\ BorrowRecordCreateSchema(d)
    /\ reqs' = [t \in DOMAIN reqs \cup {s} |->
                   IF t = s THEN Request("read_user", d, OK) ELSE reqs[t]]
    /\ UNCHANGED <<users, books, borrow_records, today, resp>>

create_read_user(s) ==
    /\ s \in DOMAIN reqs
    /\ reqs[s].pc = "read_user"
    /\ Advance(s, CheckUser(reqs[s].d), "read_book")

create_read_book(s) ==
    /\ s \in DOMAIN reqs
    /\ reqs[s].pc = "read_book"
    /\ Advance(s, CheckBook(reqs[s].d), "count")

create_count(s) ==
    /\ s \in DOMAIN reqs
    /\ reqs[s].pc = "count"
    /\ Advance(s, CheckLimit(reqs[s].d), "overdue")

create_overdue(s) ==
    /\ s \in DOMAIN reqs
    /\ reqs[s].pc = "overdue"
    /\ Advance(s, CheckOverdue(reqs[s].d), "commit")

create_commit(s) ==
    /\ s \in DOMAIN reqs
    /\ reqs[s].pc = "commit"
    /\ reqs[s].d.book_id \in DOMAIN books
    /\ CommitBorrow(reqs[s].d)
    /\ reqs' = [reqs EXCEPT ![s] = Request("done", reqs[s].d, OK)]
    /\ UNCHANGED <<users, today, resp>>

ConcNext ==
    \/ \E s \in Slots, d \in ConcCreates : create_begin(s, d)
    \/ \E s \in Slots : create_read_user(s)
    \/ \E s \in Slots : create_read_book(s)
    \/ \E s \in Slots : create_count(s)
    \/ \E s \in Slots : create_overdue(s)
    \/ \E s \in Slots : create_commit(s)

SpecConc == ConcInit /\ [][ConcNext]_vars

(***************************************************************************)
(* The concurrent specification at the limit: user 1 already holds books   *)
(* 3 to 6 through records 1 to 4, the state after four creates, and two    *)
(* requests, one for book 1 and one for book 2, run with their steps       *)
(* interleaved.  2 is the id of no user.                                   *)
(***************************************************************************)
HeldRecords == 1 .. (MAX_ACTIVE_BORROWS - 1)

ConcLimitInit ==
    /\ users = [u \in {1} |-> [is_active |-> TRUE]]
    /\ books = [b \in 1 .. (MAX_ACTIVE_BORROWS + 1) |->
                  [status |-> IF b \in {1, 2} THEN AVAILABLE ELSE BORROWED]]
    /\ borrow_records =
          [i \in HeldRecords |->
              BorrowRecord([user_id |-> 1, book_id |-> i + 2,
                            borrowed_date |-> StartDay,
                            due_date |-> StartDay + 1,
                            returned_date |-> None, fine_amount |-> None,
                            notes |-> NoNotes])]
    /\ today = StartDay
    /\ resp = Response("none", OK, 0)
    /\ reqs = [s \in {} |-> 0]

ConcLimitCreates ==
    CreateData({1, 2}, {1, 2, 3}, {today}, {today + 1}, {None}, {None},
               {NoNotes})

\* The request of slot s asks for book s, available, or for book 3,
\* borrowed: the requests in flight for an available book are for different
\* books.
ConcLimitNext ==
    \/ \E s \in Slots, d \in ConcLimitCreates :
          d.book_id \in {s, 3} /\ create_begin(s, d)
    \/ \E s \in Slots : create_read_user(s)
    \/ \E s \in Slots : create_read_book(s)
    \/ \E s \in Slots : create_count(s)
    \/ \E s \in Slots : create_overdue(s)
    \/ \E s \in Slots : create_commit(s)

SpecConcLimit == ConcLimitInit /\ [][ConcLimitNext]_vars

(***************************************************************************)
(* The properties.  Each is stated over the tables and the response, not   *)
(* through the checks of the handlers.                                     *)
(***************************************************************************)
Active(i) == borrow_records[i].returned_date = None

ActiveOf(u) ==
    {i \in DOMAIN borrow_records : borrow_records[i].user_id = u /\ Active(i)}

OverdueOf(u) == {i \in ActiveOf(u) : borrow_records[i].due_date < today}

ActiveUser(u) == u \in DOMAIN users /\ users[u].is_active

AvailableBook(b) == b \in DOMAIN books /\ books[b].status = AVAILABLE

\* The ids the records table gains by a step.
Inserted == DOMAIN borrow_records' \ DOMAIN borrow_records

\* C1: in every reachable state, every borrow record whose returned_date is
\* absent refers to a book whose status is borrowed.
C1_ActiveRecordHasBorrowedBook ==
    \A i \in DOMAIN borrow_records :
        Active(i) =>
            /\ borrow_records[i].book_id \in DOMAIN books
            /\ books[borrow_records[i].book_id].status = BORROWED

\* C2: of two create requests for the same book, run concurrently with their
\* steps interleaved in any order, at most one succeeds: no state has two
\* finished requests for one book that both succeeded, nor two records
\* created for one book.
C2_AtMostOneConcurrentBorrow ==
    /\ \A s \in DOMAIN reqs, t \in DOMAIN reqs :
          (/\ s # t
           /\ reqs[s].d.book_id = reqs[t].d.book_id
           /\ reqs[s].pc = "done"
           /\ reqs[t].pc = "done")
          => ~(reqs[s].detail = OK /\ reqs[t].detail = OK)
    /\ \A i \in DOMAIN borrow_records, j \in DOMAIN borrow_records :
          i # j => borrow_records[i].book_id # borrow_records[j].book_id

\* The fine the specification gives a return d >= 1 days after the due date.
ExpectedFine(d) == IF d * 50 <= 2500 THEN d * 50 ELSE 2500

\* C3: a return on an active record whose due date is d >= 1 whole days
\* before the current date stores fine_amount = min(d x 0.50, 25.00) on the
\* record: 5.00 for d = 10, the cap 25.00 for every d >= 50.
C3_ReturnStoresFine ==
    [][\A id \in RecordIds :
          (/\ resp'.op = "return"
           /\ id \in DOMAIN borrow_records
           /\ Active(id)
           /\ borrow_records[id].due_date < today
           /\ return_book(id))
          => /\ id \in DOMAIN borrow_records'
             /\ borrow_records'[id].fine_amount =
                   ExpectedFine(today - borrow_records[id].due_date)]_vars

\* C4: a return on an active record that is not overdue at the moment of the
\* return (due_date >= the current date) and whose fine_amount is absent
\* leaves fine_amount absent: it stores no fine, and never 0.  Stated as:
\* no step that leaves such a record otherwise is a return of it.
C4_ReturnOnTimeLeavesFineAbsent ==
    [][\A id \in RecordIds :
          (/\ resp'.op = "return"
           /\ id \in DOMAIN borrow_records
           /\ Active(id)
           /\ borrow_records[id].due_date >= today
           /\ borrow_records[id].fine_amount = None
           /\ ~(/\ resp'.detail = OK
                /\ borrow_records'[id].returned_date = today
                /\ borrow_records'[id].fine_amount = None))
          => ~return_book(id)]_vars

\* A record was returned on its due date and holds no fine.
C4_Witness ==
    /\ resp.op = "return"
    /\ resp.detail = OK
    /\ resp.id \in DOMAIN borrow_records
    /\ borrow_records[resp.id].returned_date = today
    /\ borrow_records[resp.id].due_date = today
    /\ borrow_records[resp.id].fine_amount = None

\* C5: a create for a user who has exactly 5 active records fails with
\* LimitExceeded and inserts no record; a create for an active user who has
\* exactly 4 active records, none overdue, on an existing available book
\* succeeds and gives the user a 5th active record.
C5_LimitAtFive ==
    [][\A d \in LimitCreates :
          (resp'.op = "create" /\ LimitCreate(d)) =>
             /\ Cardinality(ActiveOf(d.user_id)) = MAX_ACTIVE_BORROWS
                => /\ resp'.detail = LimitReached
                   /\ borrow_records' = borrow_records
             /\ (/\ ActiveUser(d.user_id)
                 /\ AvailableBook(d.book_id)
                 /\ Cardinality(ActiveOf(d.user_id)) = MAX_ACTIVE_BORROWS - 1
                 /\ OverdueOf(d.user_id) = {})
                => /\ resp'.detail = OK
                   /\ Cardinality(ActiveOf(d.user_id)') = MAX_ACTIVE_BORROWS]_vars

\* C6, as claimed: a create for a user who holds at least one active record
\* with due_date earlier than the current date, and 1 to 4 active records,
\* fails with Blocked; no record is inserted and the requested book's
\* status is unchanged.
C6_OverdueAlwaysBlocked ==
    [][\A d \in LimitCreates :
          (/\ resp'.op = "create"
           /\ OverdueOf(d.user_id) # {}
           /\ Cardinality(ActiveOf(d.user_id)) < MAX_ACTIVE_BORROWS
           /\ LimitCreate(d))
          => /\ resp'.detail = HasOverdue
             /\ borrow_records' = borrow_records
             /\ books' = books]_vars

\* C6, amended: the same for an active user who requests an existing
\* available book.  Stated as: no step with another outcome is such a
\* create.
C6_OverdueBlocksEligibleCreate ==
    [][\A d \in LimitCreates :
          (/\ resp'.op = "create"
           /\ ActiveUser(d.user_id)
           /\ AvailableBook(d.book_id)
           /\ OverdueOf(d.user_id) # {}
           /\ Cardinality(ActiveOf(d.user_id)) < MAX_ACTIVE_BORROWS
           /\ ~(/\ resp'.detail = HasOverdue
                /\ borrow_records' = borrow_records
                /\ books' = books))
          => ~LimitCreate(d)]_vars

\* A create was refused as blocked while user 1, active, held a single
\* active record, overdue, and book 1 was available.
C6_Witness ==
    /\ resp.op = "create"
    /\ resp.detail = HasOverdue
    /\ ActiveUser(1)
    /\ AvailableBook(1)
    /\ Cardinality(ActiveOf(1)) = 1
    /\ OverdueOf(1) # {}

\* C7: a create by an active user for an existing book whose status is
\* borrowed, reserved, maintenance or lost fails with Conflict; the book's
\* status is unchanged and no record is inserted.  Stated as: no step with
\* another outcome is such a create.
C7_UnavailableBookConflict ==
    [][\A d \in LimitCreates :
          (/\ resp'.op = "create"
           /\ ActiveUser(d.user_id)
           /\ d.book_id \in DOMAIN books
           /\ books[d.book_id].status \in
                 {"borrowed", "reserved", "maintenance", "lost"}
           /\ ~(/\ resp'.detail = BookNotAvailable
                /\ books' = books
                /\ borrow_records' = borrow_records))
          => ~LimitCreate(d)]_vars

\* A create was refused as a conflict on a book set to lost that no active
\* record holds, while user 1 was active.
C7_Witness ==
    /\ resp.op = "create"
    /\ resp.detail = BookNotAvailable
    /\ ActiveUser(1)
    /\ 1 \in DOMAIN books
    /\ books[1].status = "lost"

\* C8: create reports the error of the earliest failing precondition, in
\* the order user exists, user is active, book exists, book is available,
\* fewer than 5 active records, no overdue active record.  Stated as: no
\* step whose response differs from the one this order gives payload d is a
\* create of d.
C8_FirstFailureWins ==
    [][\A d \in LimitCreates :
          LET u == d.user_id
              b == d.book_id
              userOk == ActiveUser(u)
              bookOk == AvailableBook(b)
              underLimit == Cardinality(ActiveOf(u)) < MAX_ACTIVE_BORROWS
          IN  (/\ resp'.op = "create"
               /\ ~(/\ u \notin DOMAIN users => resp'.detail = UserNotFound
                    /\ (u \in DOMAIN users /\ ~users[u].is_active)
                          => resp'.detail = UserNotActive
                    /\ (userOk /\ b \notin DOMAIN books)
                          => resp'.detail = BookNotFound
                    /\ (userOk /\ b \in DOMAIN books /\ ~bookOk)
                          => resp'.detail = BookNotAvailable
                    /\ (userOk /\ bookOk /\ ~underLimit)
                          => resp'.detail = LimitReached
                    /\ (userOk /\ bookOk /\ underLimit /\ OverdueOf(u) # {})
                          => resp'.detail = HasOverdue
                    /\ (userOk /\ bookOk /\ underLimit /\ OverdueOf(u) = {})
                          => resp'.detail = OK))
              => ~LimitCreate(d)]_vars

\* A create was refused for the limit while user 1, active, held 5 active
\* records, one of them overdue, and book 1 was available.
C8_Witness ==
    /\ resp.op = "create"
    /\ resp.detail = LimitReached
    /\ ActiveUser(1)
    /\ AvailableBook(1)
    /\ Cardinality(ActiveOf(1)) = MAX_ACTIVE_BORROWS
    /\ OverdueOf(1) # {}

\* C9: every successful create inserts exactly one new record, in the
\* active state whatever optional fields the payload carries, and changes
\* the book's status from available to borrowed, both in one step.
C9_CreateInsertsActiveRecord ==
    [][\A d \in Creates :
          (resp'.op = "create" /\ resp'.detail = OK /\ Create(d))
          => /\ Cardinality(Inserted) = 1
             /\ \A i \in Inserted : borrow_records'[i].returned_date = None
             /\ \A i \in DOMAIN borrow_records :
                   i \in DOMAIN borrow_records'
                   /\ borrow_records'[i] = borrow_records[i]
             /\ books[d.book_id].status = AVAILABLE
             /\ books'[d.book_id].status = BORROWED]_vars

C11_ReborrowAfterLateReturn ==
    [][\A d \in PairCreates :
          (/\ resp'.op = "create"
           /\ resp.op = "return"
           /\ resp.detail = OK
           /\ resp.id \in DOMAIN borrow_records
           /\ borrow_records[resp.id].user_id = d.user_id
           /\ borrow_records[resp.id].book_id = d.book_id
           /\ borrow_records[resp.id].returned_date # None
           /\ borrow_records[resp.id].due_date <
                 borrow_records[resp.id].returned_date
           /\ ActiveOf(d.user_id) = {}
           /\ ~(/\ AvailableBook(d.book_id)
                /\ resp'.detail = OK
                /\ Cardinality(Inserted) = 1
                /\ \A i \in Inserted :
                      /\ borrow_records'[i].user_id = d.user_id
                      /\ borrow_records'[i].book_id = d.book_id
                /\ books'[d.book_id].status = BORROWED))
          => ~PairCreate(d)]_vars

\* User 1 holds book 1 through record 2, created right after the return of
\* record 1 a day or more after its due date.
C11_Witness ==
    /\ resp.op = "create"
    /\ resp.detail = OK
    /\ resp.id = 2
    /\ DOMAIN borrow_records = {1, 2}
    /\ borrow_records[1].returned_date # None
    /\ borrow_records[1].due_date < borrow_records[1].returned_date
    /\ borrow_records[1].user_id = borrow_records[2].user_id
    /\ borrow_records[1].book_id = borrow_records[2].book_id
    /\ Active(2)
    /\ books[borrow_records[2].book_id].status = BORROWED

\* C12: extend on a returned record fails with Conflict and leaves the
\* record unchanged; extend on an active record with n in 1..30 sets
\* due_date to the previous due_date plus n and leaves fine_amount,
\* returned_date and the book's status unchanged, also when the record is
\* overdue.  Stated as: no step with another outcome is an extend.
C12_ExtendShiftsDueDateOnly ==
    [][\A id \in RecordIds, n \in ExtendDays :
          (/\ resp'.op = "extend"
           /\ id \in DOMAIN borrow_records
           /\ ~(IF ~Active(id)
                THEN /\ resp'.detail = CannotExtend
                     /\ borrow_records' = borrow_records
                     /\ books' = books
                ELSE (n >= 1 /\ n <= 30) =>
                     /\ resp'.detail = OK
                     /\ id \in DOMAIN borrow_records'
                     /\ borrow_records'[id].due_date =
                           borrow_records[id].due_date + n
                     /\ borrow_records'[id].fine_amount =
                           borrow_records[id].fine_amount
                     /\ borrow_records'[id].returned_date = None
                     /\ books' = books))
          => ~extend_due_date(id, n)]_vars

\* A record that was 30 days overdue has been extended by 30 days: it is
\* due today, active, and holds no fine.
C12_Witness ==
    /\ resp.op = "extend"
    /\ resp.detail = OK
    /\ resp.id \in DOMAIN borrow_records
    /\ Active(resp.id)
    /\ borrow_records[resp.id].due_date = today
    /\ borrow_records[resp.id].fine_amount = None
    /\ borrow_records[resp.id].notes = <<ExtensionNote(30, today)>>

\* C13: extend appends its audit note: the notes the record held before
\* the extension are still there afterwards, followed by an entry with the
\* extension length and the date, so that k successive extensions leave k
\* entries.
C13_ExtendAppendsNote ==
    [][\A id \in RecordIds, n \in ExtendDays :
          (/\ resp'.op = "extend"
           /\ resp'.detail = OK
           /\ id \in DOMAIN borrow_records
           /\ extend_due_date(id, n))
          => borrow_records'[id].notes =
                Append(borrow_records[id].notes, ExtensionNote(n, today))]_vars

\* C14: delete of an active record sets its book's status to available and
\* removes the record; delete of a returned record removes the record and
\* leaves the book's status as it was, also when the book is borrowed
\* through a later record.  Stated as: no step with another outcome is a
\* delete of an existing record.
C14_DeleteReleasesActiveOnly ==
    [][\A id \in PairIds :
          (/\ resp'.op = "delete"
           /\ id \in DOMAIN borrow_records
           /\ ~(/\ resp'.detail = OK
                /\ DOMAIN borrow_records' = DOMAIN borrow_records \ {id}
                /\ \A j \in DOMAIN borrow_records' :
                      borrow_records'[j] = borrow_records[j]
                /\ IF Active(id)
                   THEN books'[borrow_records[id].book_id].status = AVAILABLE
                   ELSE books' = books))
          => ~delete_borrow_record(id)]_vars

\* Record 1 has been deleted while record 2, active, holds the same book:
\* the book is still borrowed.
C14_Witness ==
    /\ resp.op = "delete"
    /\ resp.detail = OK
    /\ resp.id = 1
    /\ DOMAIN borrow_records = {2}
    /\ Active(2)
    /\ books[borrow_records[2].book_id].status = BORROWED

\* C15: the generic update changes only the fields the request supplies
\* among due_date, returned_date, fine_amount and notes: never a book's
\* status, the record's user_id or book_id, or another record, for every
\* patch.  Stated as: no step that changes anything else is an update.
C15_UpdateChangesSuppliedFieldsOnly ==
    [][\A id \in PairIds, p \in Patches :
          (/\ resp'.op = "update"
           /\ id \in DOMAIN borrow_records
           /\ ~(/\ books' = books
                /\ users' = users
                /\ DOMAIN borrow_records' = DOMAIN borrow_records
                /\ \A j \in DOMAIN borrow_records \ {id} :
                      borrow_records'[j] = borrow_records[j]
                /\ \A f \in DOMAIN borrow_records[id] \ DOMAIN p :
                      borrow_records'[id][f] = borrow_records[id][f]
                /\ DOMAIN p \subseteq
                      {"due_date", "returned_date", "fine_amount", "notes"}))
          => ~update_borrow_record(id, p)]_vars

\* Record 1 has been patched with a returned_date while record 2 exists:
\* record 1 is returned and its book is still borrowed.
C15_Witness ==
    /\ resp.op = "update"
    /\ resp.detail = OK
    /\ resp.id = 1
    /\ DOMAIN borrow_records = {1, 2}
    /\ ~Active(1)
    /\ Active(2)
    /\ borrow_records[1].notes = CallerNote
    /\ books[borrow_records[1].book_id].status = BORROWED

\* C16: in every reachable state a record's fine_amount is present only if
\* the record has been returned and was overdue at its return, and a
\* present fine_amount lies between 0 and 25.00.
C16_FineOnlyFromLateReturn ==
    \A i \in DOMAIN borrow_records :
        borrow_records[i].fine_amount # None =>
            /\ borrow_records[i].returned_date # None
            /\ borrow_records[i].due_date < borrow_records[i].returned_date
            /\ borrow_records[i].fine_amount >= 0
            /\ borrow_records[i].fine_amount <= MAX_FINE

\* C17: a delete of a user who owns a record with no returned_date fails
\* and leaves the user and every record in place; in every reachable state
\* every active record refers to a user that exists.
C17_UserWithActiveRecordStays ==
    /\ [](\A i \in DOMAIN borrow_records :
             Active(i) => borrow_records[i].user_id \in DOMAIN users)
    /\ [][\A u \in {1, 2} :
             (/\ resp'.op = "delete_user"
              /\ ActiveOf(u) # {}
              /\ ~(/\ resp'.detail # OK
                   /\ users' = users
                   /\ borrow_records' = borrow_records))
             => ~delete_user(u)]_vars

\* A delete of user 1 has failed while user 1 holds an active record.
C17_Witness ==
    /\ resp.op = "delete_user"
    /\ resp.detail # OK
    /\ 1 \in DOMAIN users
    /\ ActiveOf(1) # {}

\* C18: a record moves only from active to returned: a record that holds a
\* returned_date holds one after every step that keeps the record.
C18_ReturnedStaysReturned ==
    [][\A i \in DOMAIN borrow_records \cap DOMAIN borrow_records' :
          ~Active(i) => borrow_records'[i].returned_date # None]_vars

\* C19: in every reachable state every record that holds a returned_date
\* has returned_date >= borrowed_date.
C19_ReturnedNotBeforeBorrowed ==
    \A i \in DOMAIN borrow_records :
        borrow_records[i].returned_date # None =>
            borrow_records[i].returned_date >= borrow_records[i].borrowed_date

\* C20: in every reachable state no user has more than 5 active records,
\* also when creates of one user for different available books run
\* concurrently.
C20_AtMostFiveActive ==
    \A u \in DOMAIN users : Cardinality(ActiveOf(u)) <= MAX_ACTIVE_BORROWS

\* C21: in every reachable state each book has at most one active record,
\* after any sequence of creates, returns, deletes and book updates that set
\* the book's status; so that no return or delete marks a book available
\* while another active record holds it.
C21_OneActiveRecordPerBook ==
    \A i \in DOMAIN borrow_records, j \in DOMAIN borrow_records :
        (/\ i # j
         /\ Active(i)
         /\ Active(j))
        => borrow_records[i].book_id # borrow_records[j].book_id

====
